---- MODULE Spec2Model ----
(***************************************************************************)
(* Model of the Sinilink amplifier session                                 *)
(* (custom_components/sinilink/sinilink.py, class SinilinkInstance) and of *)
(* the media-player entity methods that call it.                           *)
(*                                                                         *)
(* The session is driven by coroutines.  A coroutine runs without          *)
(* interruption from one `await` to the next, so every action below is     *)
(* either the start of a public operation or the completion of one awaited *)
(* external call, followed by all the code that runs up to the next await  *)
(* (or up to the return of the public operation).                          *)
(***************************************************************************)
EXTENDS Integers, Sequences, FiniteSets, TLC

VARIABLES
    task,       \* per caller: position and locals of the coroutine it runs
    handle,     \* self._device: 0 is None, otherwise the id of a BleakClient
    connected,  \* BleakClient.is_connected of every client id
    is_on,      \* self._is_on
    volume,     \* self._volume
    commanded,  \* history: set_volume has been called on this session
    serial,     \* the host issues one operation at a time on the session
    budget,     \* calls the host may still issue when it interleaves them
    muted,      \* SinilinkAmplifier._muted
    level,      \* SinilinkAmplifier._media_volume_level, in hundredths
    prior       \* history: the entity calls that returned, oldest first

vars == <<task, handle, connected, is_on, volume, commanded, serial, budget,
          muted, level, prior>>

\* the fields of the entity, and the history of its calls
ent == <<muted, level, prior>>

\* what no step of a running operation changes
env == <<commanded, serial, budget, muted, level, prior>>

----------------------------------------------------------------------------
(* Bounds of the model *)

\* client ids available at one time; ids of closed, unreferenced clients are reused
MaxClients == 3

\* calls issued in one run in which the host interleaves calls
MaxCalls == 2

\* callers that may have an operation in flight on the one session
Tasks == {"t1", "t2"}

\* the largest intensity: _volume_max of the entity
MaxIntensity == 255

\* every intensity set_volume is specified for
AllIntensities == 0..MaxIntensity

\* volume levels the host sets on the entity, in hundredths of the range 0 to 1
Levels == {50}

\* calls the host makes on the entity in one run
MaxHostCalls == 3

\* intensities passed to set_volume (device units, 0..255)
Intensities == {0, 42, 255}

Clients == 1..MaxClients

\* Python None for self._volume
None == -1

----------------------------------------------------------------------------
(* Command frames *)

\* bit i of the byte a
Bit(a, i) == (a \div (2 ^ i)) % 2

\* bitwise exclusive or of two bytes
Xor(a, b) ==
      ((Bit(a, 0) + Bit(b, 0)) % 2)       + ((Bit(a, 1) + Bit(b, 1)) % 2) * 2
    + ((Bit(a, 2) + Bit(b, 2)) % 2) * 4   + ((Bit(a, 3) + Bit(b, 3)) % 2) * 8
    + ((Bit(a, 4) + Bit(b, 4)) % 2) * 16  + ((Bit(a, 5) + Bit(b, 5)) % 2) * 32
    + ((Bit(a, 6) + Bit(b, 6)) % 2) * 64  + ((Bit(a, 7) + Bit(b, 7)) % 2) * 128

\* one bit step of CRC-8/MAXIM: poly 0x31 reflected (0x8C)
CrcStep(crc) == IF crc % 2 = 1 THEN Xor(crc \div 2, 140) ELSE crc \div 2

\* the register after the eight bit steps of one byte
CrcTable ==
    [c \in 0..255 |-> CrcStep(CrcStep(CrcStep(CrcStep(CrcStep(CrcStep(CrcStep(CrcStep(c))))))))]

\* Crc8Maxim().process(data): init 0, no final xor
RECURSIVE CrcFrom(_, _, _)
CrcFrom(crc, data, i) ==
    IF i > Len(data) THEN crc
    ELSE CrcFrom(CrcTable[Xor(crc, data[i])], data, i + 1)

Crc8Maxim(data) == CrcFrom(0, data, 1)

\* Payload without the checksum of lines 44-46
PayloadRaw(data) == data

\* data + crcinst.finalbytes()
Payload(data) == Append(data, Crc8Maxim(data))

Zeros10 == [i \in 1..10 |-> 0]

\* header 7e0f1d + command + ten zero bytes + suffix (command + 170)
VolumeFrame(bucket) == <<126, 15, 29, bucket>> \o Zeros10 \o <<bucket + 170>>

\* PowerOffFrame built like the frame of turn_on, from the cached volume
PowerOffFrameFromVolume == VolumeFrame(volume \div 5)

\* header 7e0f1d + 00 + ten zero bytes + aa
PowerOffFrame == <<126, 15, 29, 0>> \o Zeros10 \o <<170>>

BluetoothFrame == <<126, 5, 20, 0, 151>>

AuxFrame == <<126, 5, 22, 0, 153>>

\* Bucket with round(x / 5) in place of int(x / 5)
BucketRounded(x) == (x + 2) \div 5

\* int(x / 5) for x >= 0
Bucket(x) == x \div 5

\* TurnOnBucket without lines 97-98: the default bucket whatever the cache holds
TurnOnBucketDefault(vol) == 7

\* the bucket turn_on uses
TurnOnBucket(vol) == IF vol # None THEN Bucket(vol) ELSE 7

----------------------------------------------------------------------------
(* Exceptions *)

\* outcomes of an awaited external call
Outcomes == {"ok", "BleakError", "Other"}

\* Handlers without the `except Exception` of lines 58-59
HandlersRetryBleakOnly ==
    [ w49  |-> {"BleakError", "Other"},
      w55  |-> {"BleakError"},
      c160 |-> {"BleakError", "Other"},
      c174 |-> {"BleakError", "Other"},
      d187 |-> {"BleakError", "Other"} ]

\* the exception kinds each try block catches, by the await it surrounds
Handlers ==
    [ w49  |-> {"BleakError", "Other"},
      w55  |-> {"BleakError", "Other"},
      c160 |-> {"BleakError", "Other"},
      c174 |-> {"BleakError", "Other"},
      d187 |-> {"BleakError", "Other"} ]

Caught(site, o) == o \in Handlers[site]

----------------------------------------------------------------------------
(* Coroutine state *)

SendOps == {"turn_on", "turn_off", "set_volume", "bluetooth", "aux"}

\* locals of a caller with no operation started yet
IdleTask ==
    [ pc |-> "idle", op |-> "none", arg |-> 0, caller |-> "none", cl |-> 0,
      data |-> <<>>, payload |-> <<>>,
      nconn |-> 0, ngatt |-> 0, nwrite |-> 0,
      w1 |-> "none", w2 |-> "none", c1 |-> "none", c2 |-> "none",
      regatt |-> FALSE, ret |-> "None", raised |-> FALSE, fault |-> FALSE,
      preOn |-> FALSE, preVol |-> 0,
      mine |-> 0, torn |-> FALSE,
      entry |-> "none", mute |-> FALSE, lvl |-> 0, preConn |-> FALSE ]

\* the state one coroutine step works on: its locals and the session fields
Cur(t) == [tr |-> task[t], h |-> handle, cn |-> connected, on |-> is_on, vol |-> volume]

Apply(t, sa) ==
    /\ task' = [task EXCEPT ![t] = sa.tr]
    /\ handle' = sa.h
    /\ connected' = sa.cn
    /\ is_on' = sa.on
    /\ volume' = sa.vol

\* a public operation is called: fresh locals
Call(t, op, arg) ==
    [Cur(t) EXCEPT !.tr = [IdleTask EXCEPT !.op = op, !.arg = arg,
                                           !.preOn = is_on, !.preVol = volume,
                                           !.preConn = (handle # 0 /\ connected[handle])]]

\* client ids no coroutine refers to: closed, not the handle, no call pending on them
Free == {c \in Clients : /\ ~connected[c]
                         /\ handle # c
                         /\ \A t \in Tasks : task[t].cl # c}

NewClient == CHOOSE c \in Free : \A d \in Free : c <= d

\* results of bluetooth.async_ble_device_from_address
Resolutions == IF Free = {} THEN {"none", "noaddr"} ELSE {"none", "noaddr", "found"}

----------------------------------------------------------------------------
(* Code between awaits *)

\* the public operation returns r to its caller
OpReturns(so, r) == [so EXCEPT !.tr.pc = "done", !.tr.cl = 0, !.tr.ret = r]

\* an exception leaves the public operation
Raise(sx) == [sx EXCEPT !.tr.pc = "done", !.tr.cl = 0, !.tr.raised = TRUE]

\* _send returned: the rest of the public operation
SendReturns(sr) ==
    IF sr.tr.op = "set_volume"
    THEN OpReturns([sr EXCEPT !.vol = sr.tr.arg], "None")
    ELSE OpReturns(sr, "None")

\* lines 44-49 / 55: build the payload and start the write on self._device
BeginWrite(sw, site) ==
    [sw EXCEPT !.tr.pc = site, !.tr.cl = sw.h,
              !.tr.payload = Payload(sw.tr.data),
              !.tr.nwrite = sw.tr.nwrite + 1]

\* ConnectReturns without the `return` of line 42: _send goes on to the write
ConnectReturnsNoAbort(sc, r) ==
    LET rs == IF r THEN "True" ELSE "False" IN
    CASE sc.tr.caller = "public" -> OpReturns(sc, rs)
      [] sc.tr.caller = "init" ->
            BeginWrite([sc EXCEPT !.tr.c1 = rs], "w49")
      [] sc.tr.caller = "retry" ->
            LET sn == [sc EXCEPT !.tr.c2 = rs] IN
            IF r THEN BeginWrite(sn, "w55") ELSE SendReturns(sn)

\* connect() returns r to the place that called it
ConnectReturns(sc, r) ==
    LET rs == IF r THEN "True" ELSE "False" IN
    CASE sc.tr.caller = "public" -> OpReturns(sc, rs)
      [] sc.tr.caller = "init" ->
            LET sn == [sc EXCEPT !.tr.c1 = rs] IN
            IF r THEN BeginWrite(sn, "w49") ELSE SendReturns(sn)
      [] sc.tr.caller = "retry" ->
            LET sn == [sc EXCEPT !.tr.c2 = rs] IN
            IF r THEN BeginWrite(sn, "w55") ELSE SendReturns(sn)

\* connect(), lines 129-160, up to its first await
ConnectBegin(sb0, caller, res) ==
    LET sb == [sb0 EXCEPT !.tr.caller = caller, !.tr.nconn = sb0.tr.nconn + 1,
                          !.tr.mine = 0, !.tr.torn = FALSE] IN
    IF sb.h # 0 /\ sb.cn[sb.h]
    THEN ConnectReturns(sb, TRUE)
    ELSE IF res = "none"
    THEN \* is_connected is False here (line 132), so line 142 is not reached
         ConnectReturns([sb EXCEPT !.h = 0], FALSE)
    ELSE IF res = "noaddr"
    THEN ConnectReturns([sb EXCEPT !.h = 0], FALSE)
    ELSE [sb EXCEPT !.h = NewClient, !.tr.pc = "c160", !.tr.cl = NewClient,
                   !.tr.mine = NewClient, !.tr.ngatt = sb.tr.ngatt + 1]

\* connect(), lines 172-180: tear down after a failed attempt
ConnectCleanup(sk) ==
    IF sk.h # 0
    THEN [sk EXCEPT !.tr.pc = "c174", !.tr.cl = sk.h]
    ELSE ConnectReturns([sk EXCEPT !.tr.cl = 0], FALSE)

\* Send without the test of line 37: connect() is called before every write
SendAlwaysConnects(sd0, data, res) ==
    ConnectBegin([sd0 EXCEPT !.tr.data = data], "init", res)

\* _send, lines 34-49, up to its first await
Send(sd0, data, res) ==
    LET sd == [sd0 EXCEPT !.tr.data = data] IN
    IF sd.h = 0 \/ ~sd.cn[sd.h]
    THEN ConnectBegin(sd, "init", res)
    ELSE BeginWrite(sd, "w49")

----------------------------------------------------------------------------
(* Public operations: the call, up to the first await *)

CanStart(t) ==
    /\ task[t].pc = "idle"
    /\ serial => \A u \in Tasks : task[u].pc = "idle"
    /\ ~serial => budget > 0

Issued == budget' = IF serial THEN budget ELSE budget - 1

turn_on(t) ==
    /\ CanStart(t)
    /\ \E res \in Resolutions :
         LET s == [Call(t, "turn_on", 0) EXCEPT !.on = TRUE] IN
         Apply(t, Send(s, VolumeFrame(TurnOnBucket(volume)), res))
    /\ Issued
    /\ UNCHANGED <<commanded, serial, ent>>

turn_off(t) ==
    /\ CanStart(t)
    /\ \E res \in Resolutions :
         LET s == [Call(t, "turn_off", 0) EXCEPT !.on = FALSE] IN
         Apply(t, Send(s, PowerOffFrame, res))
    /\ Issued
    /\ UNCHANGED <<commanded, serial, ent>>

set_volume(t, intensity) ==
    /\ CanStart(t)
    /\ \E res \in Resolutions :
         Apply(t, Send(Call(t, "set_volume", intensity),
                       VolumeFrame(Bucket(intensity)), res))
    /\ commanded' = TRUE
    /\ Issued
    /\ UNCHANGED <<serial, ent>>

bluetooth(t) ==
    /\ CanStart(t)
    /\ \E res \in Resolutions :
         Apply(t, Send(Call(t, "bluetooth", 0), BluetoothFrame, res))
    /\ Issued
    /\ UNCHANGED <<commanded, serial, ent>>

aux(t) ==
    /\ CanStart(t)
    /\ \E res \in Resolutions :
         Apply(t, Send(Call(t, "aux", 0), AuxFrame, res))
    /\ Issued
    /\ UNCHANGED <<commanded, serial, ent>>

connect(t) ==
    /\ CanStart(t)
    /\ \E res \in Resolutions :
         Apply(t, ConnectBegin(Call(t, "connect", 0), "public", res))
    /\ Issued
    /\ UNCHANGED <<commanded, serial, ent>>

disconnect(t) ==
    /\ CanStart(t)
    /\ LET s == Call(t, "disconnect", 0) IN
       IF s.h # 0 /\ s.cn[s.h]
       THEN Apply(t, [s EXCEPT !.tr.pc = "d187", !.tr.cl = s.h])
       ELSE Apply(t, OpReturns([s EXCEPT !.h = 0], "None"))
    /\ Issued
    /\ UNCHANGED <<commanded, serial, ent>>

----------------------------------------------------------------------------
(* Methods of the media-player entity: the call, up to the first await *)

\* int(level * self._volume_max) for a level of p hundredths
IntensityOf(p) == (p * MaxIntensity) \div 100

\* int(mute)
IntOfBool(b) == IF b THEN 1 ELSE 0

\* media_player.py, lines 158-162
async_set_volume_level(t, p) ==
    /\ CanStart(t)
    /\ \E res \in Resolutions :
         LET i == IntensityOf(p)
             s == [Call(t, "set_volume", i) EXCEPT
                       !.tr.entry = "async_set_volume_level", !.tr.lvl = p] IN
         Apply(t, Send(s, VolumeFrame(Bucket(i)), res))
    /\ commanded' = TRUE
    /\ Issued
    /\ UNCHANGED <<serial, ent>>

\* media_player.py, lines 166-168
async_mute_volume(t, mute) ==
    /\ CanStart(t)
    /\ \E res \in Resolutions :
         LET i == IntensityOf(level) * IntOfBool(mute)
             s == [Call(t, "set_volume", i) EXCEPT
                       !.tr.entry = "async_mute_volume", !.tr.mute = mute] IN
         Apply(t, Send(s, VolumeFrame(Bucket(i)), res))
    /\ commanded' = TRUE
    /\ Issued
    /\ UNCHANGED <<serial, ent>>

----------------------------------------------------------------------------
(* Completions of awaited calls *)

\* line 160: BleakClient.connect(timeout=20) ends with outcome o
GattConnectDone(t, o) ==
    /\ task[t].pc = "c160"
    /\ LET s == Cur(t)
           c == task[t].cl IN
       IF o = "ok"
       THEN Apply(t, [s EXCEPT !.cn[c] = TRUE, !.tr.pc = "c161",
                               !.tr.regatt = (s.tr.caller = "retry")])
       ELSE IF Caught("c160", o)
       THEN Apply(t, ConnectCleanup([s EXCEPT !.tr.fault = TRUE]))
       ELSE Apply(t, Raise([s EXCEPT !.tr.fault = TRUE]))
    /\ UNCHANGED env

\* line 161-164: the settle delay ends, self._device.is_connected is read
SettleDone(t) ==
    /\ task[t].pc = "c161"
    /\ LET s == Cur(t) IN
       IF s.h = 0
       THEN \* AttributeError on None, inside the try of line 159
            IF Caught("c160", "Other")
            THEN Apply(t, ConnectCleanup(s))
            ELSE Apply(t, Raise(s))
       ELSE IF s.cn[s.h]
       THEN Apply(t, ConnectReturns([s EXCEPT !.tr.cl = 0], TRUE))
       ELSE Apply(t, ConnectCleanup(s))
    /\ UNCHANGED env

\* line 174: the disconnect of the cleanup ends with outcome o;
\* when it raises the link may or may not have been closed
CleanupDisconnectDone(t, o, closed) ==
    /\ task[t].pc = "c174"
    /\ o = "ok" => closed
    /\ LET c == task[t].cl
           s == [Cur(t) EXCEPT !.cn[c] = IF closed THEN FALSE ELSE @,
                               !.tr.torn = (c = task[t].mine),
                               !.tr.fault = @ \/ (o # "ok")] IN
       IF o = "ok" \/ Caught("c174", o)
       THEN Apply(t, ConnectReturns([s EXCEPT !.h = 0, !.tr.cl = 0], FALSE))
       ELSE Apply(t, Raise(s))
    /\ UNCHANGED env

\* WriteDone with one handler for every exception: any failure reconnects
WriteDoneRetryAny(t, o) ==
    /\ task[t].pc = "w49"
    /\ o = "ok" => (task[t].cl # 0 /\ connected[task[t].cl])
    /\ \E res \in Resolutions :
         LET s == [Cur(t) EXCEPT !.tr.w1 = o, !.tr.cl = 0,
                                 !.tr.fault = @ \/ (o # "ok")] IN
         IF o = "ok" THEN Apply(t, SendReturns(s))
         ELSE Apply(t, ConnectBegin(s, "retry", res))
    /\ UNCHANGED env

\* line 49: the first write ends with outcome o
WriteDone(t, o) ==
    /\ task[t].pc = "w49"
    /\ o = "ok" => (task[t].cl # 0 /\ connected[task[t].cl])
    /\ \E res \in Resolutions :
         LET s == [Cur(t) EXCEPT !.tr.w1 = o, !.tr.cl = 0,
                                 !.tr.fault = @ \/ (o # "ok")] IN
         IF o = "ok" THEN Apply(t, SendReturns(s))
         ELSE IF ~Caught("w49", o) THEN Apply(t, Raise(s))
         ELSE IF o = "BleakError" THEN Apply(t, ConnectBegin(s, "retry", res))
         ELSE Apply(t, SendReturns(s))
    /\ UNCHANGED env

\* RetryWriteDone with a retry loop: a BleakError reconnects and writes again
RetryWriteDoneLoop(t, o) ==
    /\ task[t].pc = "w55"
    /\ o = "ok" => (task[t].cl # 0 /\ connected[task[t].cl])
    /\ \E res \in Resolutions :
         LET s == [Cur(t) EXCEPT !.tr.w2 = o, !.tr.cl = 0,
                                 !.tr.fault = @ \/ (o # "ok")] IN
         IF o = "BleakError"
         THEN Apply(t, ConnectBegin(s, "retry", res))
         ELSE Apply(t, SendReturns(s))
    /\ UNCHANGED env

\* line 55: the retried write ends with outcome o
RetryWriteDone(t, o) ==
    /\ task[t].pc = "w55"
    /\ o = "ok" => (task[t].cl # 0 /\ connected[task[t].cl])
    /\ LET s == [Cur(t) EXCEPT !.tr.w2 = o, !.tr.cl = 0,
                               !.tr.fault = @ \/ (o # "ok")] IN
       IF o = "ok" \/ Caught("w55", o)
       THEN Apply(t, SendReturns(s))
       ELSE Apply(t, Raise(s))
    /\ UNCHANGED env

\* DisconnectDone with line 194 inside the try: a raising close keeps the handle
DisconnectDoneKeepsHandle(t, o, closed) ==
    /\ task[t].pc = "d187"
    /\ o = "ok" => closed
    /\ LET c == task[t].cl
           s == [Cur(t) EXCEPT !.cn[c] = IF closed THEN FALSE ELSE @,
                               !.tr.fault = @ \/ (o # "ok")] IN
       IF o = "ok"
       THEN Apply(t, OpReturns([s EXCEPT !.h = 0], "None"))
       ELSE Apply(t, OpReturns(s, "None"))
    /\ UNCHANGED env

\* line 187: the disconnect of disconnect() ends with outcome o
DisconnectDone(t, o, closed) ==
    /\ task[t].pc = "d187"
    /\ o = "ok" => closed
    /\ LET c == task[t].cl
           s == [Cur(t) EXCEPT !.cn[c] = IF closed THEN FALSE ELSE @,
                               !.tr.fault = @ \/ (o # "ok")] IN
       IF o = "ok" \/ Caught("d187", o)
       THEN Apply(t, OpReturns([s EXCEPT !.h = 0], "None"))
       ELSE Apply(t, Raise(s))
    /\ UNCHANGED env

\* the caller of the public operation takes its result (media_player.py)
Return(t) ==
    /\ task[t].pc = "done"
    /\ task' = [task EXCEPT ![t] = IdleTask]
    /\ UNCHANGED <<handle, connected, is_on, volume, env>>

\* what the history keeps of the call of t that returns
Returned(t) ==
    [ op |-> task[t].op, entry |-> task[t].entry, arg |-> task[t].arg,
      mute |-> task[t].mute, payload |-> task[t].payload,
      nwrite |-> task[t].nwrite, nconn |-> task[t].nconn,
      preConn |-> task[t].preConn, w1 |-> task[t].w1,
      preVol |-> task[t].preVol, on |-> is_on, vol |-> volume ]

\* the await of an entity method returns: the rest of the method
\* (media_player.py, lines 163 and 169), recorded in the history
EntityReturn(t) ==
    /\ task[t].pc = "done"
    /\ task' = [task EXCEPT ![t] = IdleTask]
    /\ level' = IF task[t].entry = "async_set_volume_level" /\ ~task[t].raised
                THEN task[t].lvl ELSE level
    /\ muted' = IF task[t].entry = "async_mute_volume" /\ ~task[t].raised
                THEN task[t].mute ELSE muted
    /\ prior' = Append(prior, Returned(t))
    /\ UNCHANGED <<handle, connected, is_on, volume, commanded, serial, budget>>

\* the radio link of a connected client is lost
LinkDrop(c) ==
    /\ connected[c]
    /\ connected' = [connected EXCEPT ![c] = FALSE]
    /\ UNCHANGED <<task, handle, is_on, volume, env>>

----------------------------------------------------------------------------
(* Specifications *)

\* __init__, lines 26-32
InitSession ==
    /\ task = [t \in Tasks |-> IdleTask]
    /\ handle = 0
    /\ connected = [c \in Clients |-> FALSE]
    /\ is_on = FALSE
    /\ volume = 0
    /\ commanded = FALSE
    /\ budget = MaxCalls
    /\ muted = FALSE
    /\ level = 20
    /\ prior = <<>>

Init == InitSession /\ serial = TRUE

InitConc == InitSession /\ serial = FALSE

Next ==
    \/ \E t \in Tasks : turn_on(t)
    \/ \E t \in Tasks : turn_off(t)
    \/ \E t \in Tasks, i \in Intensities : set_volume(t, i)
    \/ \E t \in Tasks : bluetooth(t)
    \/ \E t \in Tasks : aux(t)
    \/ \E t \in Tasks : connect(t)
    \/ \E t \in Tasks : disconnect(t)
    \/ \E t \in Tasks, o \in Outcomes : GattConnectDone(t, o)
    \/ \E t \in Tasks : SettleDone(t)
    \/ \E t \in Tasks, o \in Outcomes, closed \in BOOLEAN : CleanupDisconnectDone(t, o, closed)
    \/ \E t \in Tasks, o \in Outcomes : WriteDone(t, o)
    \/ \E t \in Tasks, o \in Outcomes : RetryWriteDone(t, o)
    \/ \E t \in Tasks, o \in Outcomes, closed \in BOOLEAN : DisconnectDone(t, o, closed)
    \/ \E t \in Tasks : Return(t)
    \/ \E c \in Clients : LinkDrop(c)

\* operations issued one at a time
Spec == Init /\ [][Next]_vars

\* operations of several callers interleaved at the awaits
SpecConc == InitConc /\ [][Next]_vars

\* the caller of the entity methods
HostTasks == {"t1"}

\* the host may make one more call on the entity
HostMay == Len(prior) < MaxHostCalls

\* the host drives the session through the entity, one call at a time, with
\* the device answering; a run may begin with set_volume of any intensity
NextHost ==
    \/ \E t \in HostTasks, i \in AllIntensities : prior = <<>> /\ set_volume(t, i)
    \/ \E t \in HostTasks, p \in Levels : HostMay /\ async_set_volume_level(t, p)
    \/ \E t \in HostTasks, m \in BOOLEAN : HostMay /\ async_mute_volume(t, m)
    \/ \E t \in HostTasks : HostMay /\ turn_on(t)
    \/ \E t \in HostTasks : HostMay /\ turn_off(t)
    \/ \E t \in HostTasks : GattConnectDone(t, "ok")
    \/ \E t \in HostTasks : SettleDone(t)
    \/ \E t \in HostTasks : WriteDone(t, "ok")
    \/ \E t \in HostTasks : EntityReturn(t)

SpecHost == Init /\ [][NextHost]_vars

----------------------------------------------------------------------------
(* Properties *)

\* the public operation of t has returned and its caller has not yet gone on
Done(t) == task[t].pc = "done"

\* a write of the send of t completed without error
WroteOk(t) == task[t].w1 = "ok" \/ task[t].w2 = "ok"

\* the connect of the send of t failed before any GATT connect (no device resolved)
ResolutionFailed(t) == task[t].c1 = "False" /\ task[t].ngatt = 0

\* Python truth value of what the operation returned
Truthy(r) == r = "True"

\* C1: turn_on / turn_off change the cached power state only if a write
\* completed without error; when resolution finds no device, turn_on leaves the
\* cached power state as it was and the handle null.
PowerCacheOnlyOnSuccess ==
    \A t \in Tasks :
        (Done(t) /\ task[t].op \in {"turn_on", "turn_off"}) =>
            /\ ~WroteOk(t) => is_on = task[t].preOn
            /\ ResolutionFailed(t) => handle = 0

\* C2: set_volume leaves the cached volume as it was before the call whenever
\* no write completed without error.
VolumeCacheOnlyOnSuccess ==
    \A t \in Tasks :
        (Done(t) /\ task[t].op = "set_volume" /\ ~WroteOk(t)) =>
            volume = task[t].preVol

\* C3: what an operation built on _send returns tells success from failure:
\* a true value exactly when the first or the retried write completed.
SendReportsOutcome ==
    \A t \in Tasks :
        (Done(t) /\ task[t].op \in SendOps) =>
            (Truthy(task[t].ret) <=> WroteOk(t))

\* C4: no public operation lets an exception of an external call escape to its
\* caller, whatever the external calls do.
NoExceptionEscapes == \A t \in Tasks : ~task[t].raised

\* C4 witness: a send whose first write raised BleakError and whose retried
\* write raised another exception has returned normally.
BothWritesRaisedAndReturned ==
    \E t \in Tasks :
        /\ Done(t) /\ ~task[t].raised
        /\ task[t].w1 = "BleakError" /\ task[t].w2 = "Other"

\* C5: one send makes at most 2 connect attempts and at most 2 writes, and a
\* second write only after the first one failed.
AttemptsBounded ==
    \A t \in Tasks :
        /\ task[t].nconn <= 2
        /\ task[t].ngatt <= 2
        /\ task[t].nwrite <= 2
        /\ task[t].nwrite = 2 => task[t].w1 \in {"BleakError", "Other"}

\* C5 witness: a send that made two GATT connects and two writes.
TwoConnectsTwoWrites ==
    \E t \in Tasks :
        /\ task[t].op \in SendOps
        /\ task[t].nconn = 2 /\ task[t].ngatt = 2 /\ task[t].nwrite = 2

\* C6: a retried write is made on a handle produced by a GATT connect that
\* happened after the failed first write.
RetryAfterRealReconnect ==
    \A t \in Tasks : task[t].pc = "w55" => task[t].regatt

\* C7: a failed connect ends the send: after a failed initial connect no write
\* and no further connect is made, after a failed reconnect no retried write and
\* no further connect is made, and the handle is null when the send returns.
FailedConnectEndsSend ==
    \A t \in Tasks :
        task[t].op \in SendOps =>
            /\ task[t].c1 = "False" =>
                 /\ Done(t) /\ handle = 0
                 /\ task[t].nwrite = 0 /\ task[t].nconn = 1
            /\ task[t].c2 = "False" =>
                 /\ Done(t) /\ handle = 0
                 /\ task[t].nwrite = 1 /\ task[t].w2 = "none"
                 /\ task[t].nconn = IF task[t].c1 = "none" THEN 1 ELSE 2

\* C7 witness: a send whose initial connect succeeded, whose first write failed
\* and whose reconnect failed after a GATT connect attempt has returned.
ReconnectFailedAndReturned ==
    \E t \in Tasks :
        /\ Done(t) /\ task[t].op \in SendOps
        /\ task[t].c1 = "True" /\ task[t].c2 = "False" /\ task[t].ngatt = 2

\* the send of t is between its call and its return
InSend(t) == task[t].op \in SendOps /\ task[t].pc \notin {"idle", "done"}

\* C8: sends on one session are serialized: a second send has no connect and
\* no write in flight before the first send has returned.
SendSerialized ==
    \A t, u \in Tasks : (t # u /\ InSend(t)) => ~InSend(u)

\* C9: every GATT client the session created is the current handle or is not
\* connected.
OneOpenConnection ==
    \A c \in Clients : connected[c] => handle = c

\* C10: turn_on builds its frame with bucket 7 (suffix 7 + 170) when no volume
\* was commanded yet, and with floor(x / 5) when volume x was commanded.
TurnOnDefaultBucket ==
    \A t \in Tasks :
        (task[t].op = "turn_on" /\ task[t].data # <<>>) =>
            /\ task[t].data[4] = IF commanded THEN Bucket(task[t].preVol) ELSE 7
            /\ task[t].data[15] = task[t].data[4] + 170

PowerOffShortLiteralWritten ==
    \A t \in Tasks :
        (task[t].nwrite > 0 /\ task[t].op = "turn_off") =>
            task[t].payload = <<126, 15, 29>> \o Zeros10 \o <<170, 219>>

\* C13 (amended): in every session state turn_off writes 7e0f1d, eleven zero
\* bytes (the command byte 00 and ten parameter bytes), aa and the CRC-8/MAXIM
\* of those 15 bytes (af).
PowerOffLiteralWritten ==
    \A t \in Tasks :
        (task[t].nwrite > 0 /\ task[t].op = "turn_off") =>
            task[t].payload = <<126, 15, 29, 0>> \o Zeros10 \o <<170, 175>>

\* C13 witness: the power-off frame was written on a session that was on and
\* whose cached volume is 255.
PowerOffWrittenWhenOn ==
    \E t \in Tasks :
        /\ task[t].op = "turn_off" /\ task[t].w1 = "ok"
        /\ task[t].preOn /\ task[t].preVol = 255

\* a step of the disconnect() that t runs
DisconnectStep(t) == task'[t] # task[t] /\ task'[t].op = "disconnect"

\* C16: disconnect() leaves the handle null when it returns, whether the close
\* succeeds or raises, never raises, and changes neither the cached power state
\* nor the cached volume.
DisconnectClearsHandle ==
    [][\A t \in Tasks :
         DisconnectStep(t) =>
            /\ is_on' = is_on /\ volume' = volume
            /\ ~task'[t].raised
            /\ task'[t].pc = "done" => handle' = 0]_vars

\* C16 witness: a disconnect() whose close raised has returned, on a session
\* that is on, with nothing left of the handle.
DisconnectRaisedAndReturned ==
    \E t \in Tasks :
        /\ Done(t) /\ task[t].op = "disconnect" /\ task[t].fault
        /\ is_on /\ handle = 0

\* in this step a connect() that t called returns r
ConnectReturned(t, r) ==
    \/ task[t].c1 = "none" /\ task'[t].c1 = r
    \/ task[t].c2 = "none" /\ task'[t].c2 = r
    \/ /\ task'[t].op = "connect" /\ ~task'[t].raised
       /\ task[t].pc # "done" /\ task'[t].pc = "done" /\ task'[t].ret = r

\* C17: when a connect attempt fails, the client it opened (if any) has had a
\* disconnect made on it with its errors swallowed, the handle is null and
\* connect reports failure; connect reports success only with a handle that is
\* non-null and connected.
ConnectFailureTearsDown ==
    [][\A t \in Tasks :
         /\ ConnectReturned(t, "False") =>
               /\ handle' = 0
               /\ ~task'[t].raised
               /\ task'[t].mine # 0 => task'[t].torn
         /\ ConnectReturned(t, "True") =>
               (handle' # 0 /\ connected'[handle'])]_vars

\* C18: a non-null handle is the result of a connect call that has completed
\* successfully: it is not set while its connect is pending and not left set
\* after its connect failed.
HandleOnlyAfterConnect ==
    \A t \in Tasks :
        /\ task[t].pc \in {"c160", "c161", "c174"} => handle = 0
        /\ (Done(t) /\ "False" \in {task[t].c1, task[t].c2}) => handle = 0

\* C19: a first write that fails with an exception other than BleakError is
\* followed by no reconnect and no second write, leaves the handle as it was and
\* the send returns without raising; only BleakError starts the reconnect.
OtherErrorEndsSend ==
    [][\A t \in Tasks :
         /\ (task[t].pc = "w49" /\ task'[t].w1 = "Other") =>
               /\ task'[t].pc = "done" /\ ~task'[t].raised
               /\ task'[t].nwrite = 1 /\ task'[t].nconn = task[t].nconn
               /\ handle' = handle
         /\ task'[t].caller = "retry" => task'[t].w1 = "BleakError"]_vars

\* C19 witness: a send whose first write raised another exception has returned
\* with the handle still set and connected.
OtherErrorReturned ==
    \E t \in Tasks :
        /\ Done(t) /\ task[t].w1 = "Other"
        /\ handle # 0 /\ connected[handle]

\* the last call of the history, and the one before it
LastCall == prior[Len(prior)]

CallBefore == prior[Len(prior) - 1]

\* C12: for every intensity in 0..255 the frame set_volume writes has 16 bytes:
\* the header 7e 0f 1d, the bucket floor(intensity / 5), in 0..51, ten zero
\* bytes, the suffix (bucket + 170) mod 256 and the CRC-8/MAXIM of the 15 bytes
\* before it (the CRC being the one whose check value is a1).
VolumeFrameWellFormed ==
    /\ Crc8Maxim(<<49, 50, 51, 52, 53, 54, 55, 56, 57>>) = 161
    /\ \A t \in Tasks :
         (task[t].op = "set_volume" /\ task[t].nwrite > 0) =>
            LET f == task[t].payload
                b == task[t].arg \div 5 IN
            /\ task[t].arg \in 0..255
            /\ Len(f) = 16
            /\ f[1] = 126 /\ f[2] = 15 /\ f[3] = 29
            /\ f[4] = b /\ b \in 0..51
            /\ \A k \in 5..14 : f[k] = 0
            /\ f[15] = (b + 170) % 256
            /\ f[16] = Crc8Maxim(SubSeq(f, 1, 15))

\* C12 witness: set_volume(254) has written the frame of bucket 50, suffix dc,
\* checksum 39, and returned.
VolumeFrame254Written ==
    \E t \in Tasks :
        /\ Done(t) /\ task[t].op = "set_volume" /\ task[t].arg = 254
        /\ task[t].w1 = "ok"
        /\ task[t].payload = <<126, 15, 29, 50>> \o Zeros10 \o <<220, 57>>

\* C14: after set_volume(x), then turn_off(), then turn_on(), the command byte
\* of the power-on frame is floor(x / 5), the command byte of the frame
\* set_volume(x) sent; turn_off() does not change the cached volume.
RoundTripRestoresBucket ==
    /\ \A t \in Tasks :
         ( /\ task[t].op = "turn_on" /\ task[t].pc # "idle"
           /\ Len(prior) >= 2
           /\ LastCall.op = "turn_off" /\ CallBefore.op = "set_volume" ) =>
            /\ task[t].data[4] = CallBefore.arg \div 5
            /\ CallBefore.nwrite > 0 => task[t].data[4] = CallBefore.payload[4]
            /\ task[t].nwrite > 0 => task[t].payload[4] = CallBefore.arg \div 5
    /\ \A k \in 1..Len(prior) :
         prior[k].op = "turn_off" => prior[k].vol = prior[k].preVol
    /\ \A t \in Tasks :
         task[t].op = "turn_off" => volume = task[t].preVol

\* C14 witness: set_volume(254) wrote bucket 50, turn_off() followed, and
\* turn_on() has written a frame of bucket 50 and returned.
RoundTrip254Done ==
    \E t \in Tasks :
        /\ Done(t) /\ task[t].op = "turn_on" /\ task[t].w1 = "ok"
        /\ Len(prior) = 2
        /\ CallBefore.op = "set_volume" /\ CallBefore.arg = 254
        /\ CallBefore.w1 = "ok" /\ CallBefore.payload[4] = 50
        /\ LastCall.op = "turn_off" /\ LastCall.w1 = "ok"
        /\ task[t].payload[4] = 50

\* t has returned from the second of two turn_off() calls made in sequence on
\* a connected session, the write of each having succeeded
SecondTurnOffDone(t) ==
    /\ Done(t) /\ task[t].op = "turn_off"
    /\ task[t].preConn /\ task[t].w1 = "ok"
    /\ Len(prior) >= 1
    /\ LastCall.op = "turn_off" /\ LastCall.preConn /\ LastCall.w1 = "ok"

\* C15: two turn_off() calls in sequence on an already-connected session whose
\* writes succeed make exactly two writes, of byte-identical frames, and no
\* connect attempt; the cached power state is false after each.
TurnOffTwiceIdentical ==
    \A t \in Tasks :
        SecondTurnOffDone(t) =>
            /\ task[t].nwrite = 1 /\ LastCall.nwrite = 1
            /\ task[t].payload = LastCall.payload
            /\ task[t].nconn = 0 /\ LastCall.nconn = 0
            /\ ~is_on /\ ~LastCall.on

\* C15 witness: the second turn_off() has returned, after a turn_on() that
\* connected the session and a first turn_off().
TurnOffTwiceDone ==
    \E t \in Tasks :
        /\ SecondTurnOffDone(t)
        /\ Len(prior) = 2 /\ CallBefore.op = "turn_on" /\ CallBefore.nconn = 1
        /\ task[t].payload = <<126, 15, 29, 0>> \o Zeros10 \o <<170, 175>>

\* C20: async_mute_volume(True) commands the session to intensity 0 and
\* async_mute_volume(False) to int(level * 255) of the stored level; the muted
\* flag is the last mute argument.
MuteCommandsZero ==
    /\ \A t \in Tasks :
         task[t].entry = "async_mute_volume" =>
            task[t].arg = IF task[t].mute THEN 0 ELSE IntensityOf(level)
    /\ (Len(prior) > 0 /\ LastCall.entry = "async_mute_volume") =>
            muted = LastCall.mute

====
